---- MODULE Spec2Model ----
(***************************************************************************)
(* Practice Zone: the admin management screen (PracticeZoneManagement.tsx, *)
(* the revision with formErrors, lines 633-1654), the student browse view  *)
(* (PracticeZone.tsx) and the tables, constraints and row level security   *)
(* policies of the migration (unnamed/part_000).                           *)
(*                                                                         *)
(* A title or description is a sequence of runs of one character, a file   *)
(* type a sequence of characters, a message a sequence of words.  An id is *)
(* a positive integer and 0 is the empty string ''.  A pdf_url is <<>> for *)
(* '', <<0>> for SQL NULL and <<n>> for the public URL of the object n.    *)
(***************************************************************************)
EXTENDS Integers, Sequences, FiniteSets, TLC

\* ------------------------------------------------------------------ bounds
MaxId == 9
MaxObjects == 2
MaxEvents == 1
MaxOps == 2

\* --------------------------------------------------------- program constants
MaxTitleLen == 255
MaxDescLen == 1000
MaxFileSize == 10 * 1024 * 1024

Clients == {"c1", "c2"}
Users == {"u1", "u2"}
NoUser == "nobody"
Threads == {"bg", "sub"}

VARIABLES
  practice_categories,  \* rows of the categories table
  practice_questions,   \* rows of the questions table
  practice_notes,       \* rows of the notes table
  user_roles,           \* rows of the role table
  bucket,               \* the practice-materials bucket exists
  objects,              \* names of the objects stored in the bucket
  nextId,               \* ids handed out so far (gen_random_uuid is fresh)
  session,              \* the authenticated user of each client
  ui,                   \* the React state of each admin screen
  pc,                   \* the pending remote call of each async handler
  sub,                  \* closure and locals of the running handleSubmit
  del,                  \* arguments of the running handleDelete
  browse,               \* the React state of the browse view
  bpc,                  \* the pending remote call of the browse view
  inflight,             \* the listing responses on their way to each screen
  count                 \* the handlers started, and the failed calls and
                        \* writes of other sessions so far

store == <<practice_categories, practice_questions, practice_notes>>
vars == <<practice_categories, practice_questions, practice_notes, user_roles,
          bucket, objects, nextId, session, ui, pc, sub, del, browse, bpc,
          inflight, count>>

\* ------------------------------------------------------------ text helpers
\* a text is a sequence of runs [ch, n]: n >= 1 times the character ch
Run(ch, n) == <<[ch |-> ch, n |-> n]>>

RECURSIVE Length(_)
Length(t) == IF t = <<>> THEN 0 ELSE t[1].n + Length(Tail(t))

Whitespace == {" ", "\t", "\n"}

RECURSIVE TrimStart(_)
TrimStart(t) ==
  IF t = <<>> THEN <<>>
  ELSE IF t[1].ch \in Whitespace THEN TrimStart(Tail(t)) ELSE t

RECURSIVE TrimEnd(_)
TrimEnd(t) ==
  IF t = <<>> THEN <<>>
  ELSE IF t[Len(t)].ch \in Whitespace THEN TrimEnd(SubSeq(t, 1, Len(t) - 1)) ELSE t

\* String.prototype.trim
Trim(t) == TrimEnd(TrimStart(t))

\* String.prototype.includes on sequences of characters or of words
Includes(s, part) ==
  \E i \in 0..(Len(s) - Len(part)) : SubSeq(s, i + 1, i + Len(part)) = part

\* ------------------------------------------------------------------- inputs
TitleAlgebra == Run("A", 1) \o Run("l", 1) \o Run("g", 1)
TitlePadded == Run(" ", 1) \o Run("B", 1) \o Run(" ", 1)
TitleMax == Run("a", MaxTitleLen)
TitleLong == Run("a", MaxTitleLen + 1)
TitleBlank == Run(" ", 2) \o Run("\t", 1)
DescMax == Run("d", MaxDescLen)
DescLong == Run("d", MaxDescLen + 1)

TypePdf == <<"a", "p", "p", "l", "i", "c", "a", "t", "i", "o", "n", "/", "p", "d", "f">>
TypePng == <<"i", "m", "a", "g", "e", "/", "p", "n", "g">>

TypePdfXml ==
  <<"a", "p", "p", "l", "i", "c", "a", "t", "i", "o", "n", "/", "v", "n", "d", ".",
    "a", "d", "o", "b", "e", ".", "p", "d", "f", "x", "m", "l">>

NullFile == [null |-> TRUE]
NullItem == [null |-> TRUE]
FilePdf == [type |-> TypePdf, size |-> MaxFileSize]
FilePdfBig == [type |-> TypePdf, size |-> MaxFileSize + 1]
FilePng == [type |-> TypePng, size |-> 1]
FileUntyped == [type |-> <<>>, size |-> 1]
FilePdfXml == [type |-> TypePdfXml, size |-> 1]

DefaultForm ==
  [title |-> <<>>, description |-> <<>>, category_id |-> 0,
   difficulty_level |-> "medium", subject |-> "", class_level |-> "",
   order_index |-> 0]

FormAlgebra ==
  [DefaultForm EXCEPT !.title = TitleAlgebra, !.difficulty_level = "easy",
                      !.subject = "Math", !.class_level = "9"]
FormMax ==
  [DefaultForm EXCEPT !.title = TitleMax, !.description = DescMax,
                      !.difficulty_level = "hard", !.order_index = 1]
FormPadded == [DefaultForm EXCEPT !.title = TitlePadded]

\* what the user has typed and selected when the form is submitted; pick is
\* the entry of the category Select: auto-assign or the first loaded category
Submissions ==
  { [form |-> FormAlgebra, file |-> NullFile, pick |-> "auto"],
    [form |-> FormAlgebra, file |-> FilePdf, pick |-> "first"],
    [form |-> FormMax, file |-> NullFile, pick |-> "first"],
    [form |-> FormPadded, file |-> FilePdf, pick |-> "auto"],
    [form |-> DefaultForm, file |-> NullFile, pick |-> "auto"],
    [form |-> [FormAlgebra EXCEPT !.title = TitleBlank], file |-> FilePdf,
     pick |-> "first"],
    [form |-> [FormAlgebra EXCEPT !.title = TitleLong], file |-> NullFile,
     pick |-> "auto"],
    [form |-> [FormAlgebra EXCEPT !.description = DescLong], file |-> NullFile,
     pick |-> "auto"],
    [form |-> FormAlgebra, file |-> FilePng, pick |-> "first"],
    [form |-> FormAlgebra, file |-> FilePdfXml, pick |-> "first"],
    [form |-> FormAlgebra, file |-> FilePdfBig, pick |-> "auto"],
    [form |-> DefaultForm, file |-> FileUntyped, pick |-> "auto"] }

\* ----------------------------------------------------------------- messages
MsgTitleRequired == <<"Title", "is", "required">>
MsgTitleLong == <<"Title", "must", "be", "less", "than", "255", "characters">>
MsgDescLong == <<"Description", "must", "be", "less", "than", "1000", "characters">>
MsgPdfOnly == <<"Only", "PDF", "files", "are", "allowed">>
MsgFileBig == <<"File", "size", "must", "be", "less", "than", "10MB">>
MsgInitFailed == <<"Failed", "to", "initialize", "default", "categories">>
MsgNoCategory == <<"Failed", "to", "create", "default", "category.">>
MsgAuthRequired == <<"Authentication", "required.", "Please", "sign", "in.">>
MsgAdminRequired == <<"Admin", "privileges", "required", "to", "manage", "practice", "materials.">>
MsgStorageDown == <<"Storage", "service", "unavailable.">>
MsgNoBucket == <<"Storage", "bucket", "not", "available.">>
MsgBucketNotFound == <<"Storage", "bucket", "not", "found.">>
MsgUploadDenied == <<"Permission", "denied", "for", "file", "upload.">>
MsgFileExists == <<"File", "already", "exists.">>
MsgUploadPrefix == <<"PDF", "upload", "failed:">>
MsgSaveFailed == <<"Failed", "to", "save", "practice", "material">>
MsgPermission == <<"Permission", "denied.", "Admin", "access", "required.">>
MsgBadCategory == <<"Invalid", "category", "selected.">>
MsgMissingField == <<"Required", "fields", "are", "missing.">>
MsgDbPermission == <<"Database", "permission", "denied.">>
MsgLoadFailed == <<"Failed", "to", "load", "practice", "data">>
MsgBrowseLoadFailed == <<"Failed", "to", "load", "practice", "materials">>
MsgDeleteFailed == <<"Failed", "to", "delete", "item">>
MsgSaved == <<"saved", "successfully">>
MsgDeleted == <<"deleted", "successfully">>
NoToast == [title |-> "", description |-> <<>>]

\* --------------------------------------------------------- backend errors
ErrNone == [code |-> "", message |-> <<>>]
ErrNetwork == [code |-> "", message |-> <<"Failed", "to", "fetch">>]
ErrRls == [code |-> "42501",
           message |-> <<"new", "row", "violates", "row-level", "security", "policy">>]
ErrDuplicate == [code |-> "23505",
                 message |-> <<"duplicate", "key", "value", "violates", "unique", "constraint">>]
ErrForeignKey == [code |-> "23503",
                  message |-> <<"violates", "foreign", "key", "constraint">>]
ErrNoColumn == [code |-> "PGRST204",
                message |-> <<"Could", "not", "find", "the", "difficulty_level", "column">>]
ErrObjectExists == [code |-> "409", message |-> <<"The", "resource", "already", "exists">>]

\* validateForm without the trim of the title
validateFormUntrimmed(formData, pdfFile) ==
  (IF formData.title = <<>> THEN <<MsgTitleRequired>> ELSE <<>>)
  \o (IF Length(formData.title) > MaxTitleLen THEN <<MsgTitleLong>> ELSE <<>>)
  \o (IF formData.description # <<>> /\ Length(formData.description) > MaxDescLen
      THEN <<MsgDescLong>> ELSE <<>>)
  \o (IF pdfFile # NullFile /\ ~Includes(pdfFile.type, <<"p", "d", "f">>)
      THEN <<MsgPdfOnly>> ELSE <<>>)
  \o (IF pdfFile # NullFile /\ pdfFile.size > MaxFileSize
      THEN <<MsgFileBig>> ELSE <<>>)

\* ------------------------------------------------------------- validateForm
validateForm(formData, pdfFile) ==
  (IF Trim(formData.title) = <<>> THEN <<MsgTitleRequired>> ELSE <<>>)
  \o (IF Length(formData.title) > MaxTitleLen THEN <<MsgTitleLong>> ELSE <<>>)
  \o (IF formData.description # <<>> /\ Length(formData.description) > MaxDescLen
      THEN <<MsgDescLong>> ELSE <<>>)
  \o (IF pdfFile # NullFile /\ ~Includes(pdfFile.type, <<"p", "d", "f">>)
      THEN <<MsgPdfOnly>> ELSE <<>>)
  \o (IF pdfFile # NullFile /\ pdfFile.size > MaxFileSize
      THEN <<MsgFileBig>> ELSE <<>>)

\* the message handleSubmit's catch block shows for a thrown error
errorMessage(error) ==
  IF error.message # <<>> THEN error.message
  ELSE IF error.code = "PGRST301" THEN MsgPermission
  ELSE IF error.code = "23503" THEN MsgBadCategory
  ELSE IF error.code = "23502" THEN MsgMissingField
  ELSE IF error.code = "42501" THEN MsgDbPermission
  ELSE MsgSaveFailed

\* ------------------------------------------------ the persistence layer
has_role(uid, role) == [user_id |-> uid, role |-> role] \in user_roles

\* SELECT policies: active rows for everyone, every row for an admin
Visible(rows, uid) == {r \in rows : r.is_active \/ has_role(uid, "admin")}

\* an ORDER BY order_index DESC
RECURSIVE OrderedDescending(_)
OrderedDescending(rows) ==
  IF rows = {} THEN {<<>>}
  ELSE LET firsts == {r \in rows : \A o \in rows : r.order_index >= o.order_index}
       IN UNION {{<<r>> \o t : t \in OrderedDescending(rows \ {r})} : r \in firsts}

\* the orders .order('order_index') can return the rows in
RECURSIVE Ordered(_)
Ordered(rows) ==
  IF rows = {} THEN {<<>>}
  ELSE LET firsts == {r \in rows : \A o \in rows : r.order_index <= o.order_index}
       IN UNION {{<<r>> \o t : t \in Ordered(rows \ {r})} : r \in firsts}

Ids(rows) == {r.id : r \in rows}
Range(s) == {s[i] : i \in 1..Len(s)}

defaultCategories ==
  << [name |-> "Question Papers", order_index |-> 1, is_active |-> TRUE],
     [name |-> "Study Notes", order_index |-> 2, is_active |-> TRUE],
     [name |-> "Practice Tests", order_index |-> 3, is_active |-> TRUE],
     [name |-> "Reference Materials", order_index |-> 4, is_active |-> TRUE] >>

WithIds(cats, base) ==
  {[id |-> base + i, name |-> cats[i].name, order_index |-> cats[i].order_index,
    is_active |-> cats[i].is_active] : i \in 1..Len(cats)}

\* the insert of the defaults into a table without UNIQUE(name)
InsertCategoriesErrorNoUnique(uid) ==
  IF ~has_role(uid, "admin") THEN ErrRls ELSE ErrNone

\* INSERT of the four default rows by uid: the error it answers with
InsertCategoriesError(uid) ==
  IF ~has_role(uid, "admin") THEN ErrRls
  ELSE IF \E r \in practice_categories : \E i \in 1..Len(defaultCategories) :
            r.name = defaultCategories[i].name THEN ErrDuplicate
  ELSE ErrNone

Table(tab) == IF tab = "questions" THEN practice_questions ELSE practice_notes

\* the row a payload becomes in a table (practice_notes has no difficulty_level)
AsRow(tab, id, data) ==
  IF tab = "questions"
  THEN [id |-> id, category_id |-> data.category_id, title |-> data.title,
        description |-> data.description, pdf_url |-> data.pdf_url,
        difficulty_level |-> data.difficulty_level, subject |-> data.subject,
        class_level |-> data.class_level, order_index |-> data.order_index,
        is_active |-> data.is_active]
  ELSE [id |-> id, category_id |-> data.category_id, title |-> data.title,
        description |-> data.description, pdf_url |-> data.pdf_url,
        subject |-> data.subject, class_level |-> data.class_level,
        order_index |-> data.order_index, is_active |-> data.is_active]

\* INSERT of a record by uid: the error it answers with
InsertError(tab, uid, data) ==
  IF tab = "notes" /\ "difficulty_level" \in DOMAIN data THEN ErrNoColumn
  ELSE IF ~has_role(uid, "admin") THEN ErrRls
  ELSE IF data.category_id \notin Ids(practice_categories) THEN ErrForeignKey
  ELSE ErrNone

\* the rows an UPDATE or DELETE ... WHERE id = id by uid touches
Matched(tab, uid, id) ==
  IF has_role(uid, "admin") THEN {r \in Table(tab) : r.id = id} ELSE {}

\* UPDATE of a record by uid: the error it answers with
UpdateError(tab, uid, id, data) ==
  IF tab = "notes" /\ "difficulty_level" \in DOMAIN data THEN ErrNoColumn
  ELSE IF Matched(tab, uid, id) # {}
          /\ data.category_id \notin Ids(practice_categories) THEN ErrForeignKey
  ELSE ErrNone

\* --------------------------------------------------------------------- Init
InitUi ==
  [categories |-> <<>>, questions |-> <<>>, notes |-> <<>>, loading |-> TRUE,
   isDialogOpen |-> FALSE, editingItem |-> NullItem, activeTab |-> "questions",
   uploading |-> FALSE, userRole |-> "null", isAdmin |-> FALSE,
   formErrors |-> <<>>, formData |-> DefaultForm, pdfFile |-> NullFile,
   toast |-> NoToast]

InitSub ==
  [formData |-> DefaultForm, pdfFile |-> NullFile, editingItem |-> NullItem,
   isAdmin |-> FALSE, categories |-> <<>>, activeTab |-> "questions",
   categoryId |-> 0, pdfUrl |-> <<>>, calls |-> <<>>, result |-> "none",
   callerAdmin |-> FALSE]

InitBrowse ==
  [categories |-> <<>>, questions |-> <<>>, notes |-> <<>>, loading |-> TRUE,
   activeTab |-> "questions", toast |-> NoToast]

SeedQuestion(active) ==
  [id |-> 5, category_id |-> 1, title |-> TitlePadded, description |-> <<>>,
   pdf_url |-> <<>>, difficulty_level |-> "medium", subject |-> "",
   class_level |-> "", order_index |-> 0, is_active |-> active]

SeedNote ==
  [id |-> 6, category_id |-> 2, title |-> TitleAlgebra, description |-> <<>>,
   pdf_url |-> <<>>, subject |-> "Math", class_level |-> "9",
   order_index |-> 0, is_active |-> TRUE]

\* the databases a session can start from: before and after the seed of the
\* migration, and with records that were written earlier
InitialDatabases ==
  { [c |-> {}, q |-> {}, n |-> {}, id |-> 0, bucket |-> FALSE],
    [c |-> WithIds(defaultCategories, 0), q |-> {}, n |-> {}, id |-> 4,
     bucket |-> TRUE],
    [c |-> WithIds(defaultCategories, 0), q |-> {SeedQuestion(FALSE)},
     n |-> {SeedNote}, id |-> 6, bucket |-> TRUE] }

InitialRoles ==
  { {[user_id |-> "u1", role |-> "admin"], [user_id |-> "u2", role |-> "admin"]},
    {[user_id |-> "u1", role |-> "student"], [user_id |-> "u2", role |-> "admin"]},
    {} }

InitialSessions ==
  { [c \in Clients |-> IF c = "c1" THEN "u1" ELSE "u2"],
    [c \in Clients |-> IF c = "c1" THEN NoUser ELSE "u2"] }

InitStore(db) ==
  /\ practice_categories = db.c
  /\ practice_questions = db.q
  /\ practice_notes = db.n
  /\ nextId = db.id
  /\ objects = {}
  /\ bucket = db.bucket

InitClients ==
  /\ ui = [c \in Clients |-> InitUi]
  /\ pc = [c \in Clients |-> [bg |-> "role_lookup", sub |-> "idle"]]
  /\ sub = [c \in Clients |-> InitSub]
  /\ del = [c \in Clients |-> [id |-> 0, type |-> "questions"]]
  /\ browse = InitBrowse
  /\ bpc = "off"
  /\ inflight = [c \in Clients |-> [th \in Threads |-> <<>>]]
  /\ count = [ops |-> 0, events |-> 0]

Init ==
  /\ \E db \in InitialDatabases : InitStore(db)
  /\ user_roles \in InitialRoles
  /\ session \in InitialSessions
  /\ InitClients

\* --------------------------------------------------------------- frames
UNCHANGED_store == UNCHANGED <<practice_categories, practice_questions, practice_notes>>
UNCHANGED_backend ==
  UNCHANGED <<practice_categories, practice_questions, practice_notes, user_roles,
              bucket, objects, nextId, session>>
UNCHANGED_browse == UNCHANGED <<browse, bpc, inflight>>

\* a remote call that fails in transit
Fault == count.events < MaxEvents /\ count' = [count EXCEPT !.events = @ + 1]

\* a write of another session
OtherWrite == count.events < MaxEvents /\ count' = [count EXCEPT !.events = @ + 1]

\* a click that starts handleSubmit or handleDelete
Started == count.ops < MaxOps /\ count' = [count EXCEPT !.ops = @ + 1]

\* a checkUserRole whose catch block falls back to the admin role
CheckUserRoleFailOpen(c) ==
  /\ pc[c].bg = "role_lookup"
  /\ UNCHANGED_backend /\ UNCHANGED_browse /\ UNCHANGED <<sub, del>>
  /\ LET uid == session[c]
         roles == {r \in user_roles : r.user_id = uid}
         start == [ui[c] EXCEPT !.loading = TRUE]
     IN \/ /\ uid = NoUser
           /\ ui' = [ui EXCEPT ![c] = [start EXCEPT !.userRole = "null", !.isAdmin = FALSE]]
           /\ pc' = [pc EXCEPT ![c].bg = "f_cats"]
           /\ UNCHANGED count
        \/ /\ uid # NoUser /\ Cardinality(roles) = 1
           /\ LET role == (CHOOSE r \in roles : TRUE).role
              IN ui' = [ui EXCEPT ![c] = [start EXCEPT !.userRole = role,
                                                       !.isAdmin = (role = "admin")]]
           /\ pc' = [pc EXCEPT ![c].bg = "f_cats"]
           /\ UNCHANGED count
        \/ /\ uid # NoUser /\ Cardinality(roles) # 1
           /\ pc' = [pc EXCEPT ![c].bg = "role_insert"]
           /\ UNCHANGED <<ui, count>>
        \/ /\ uid # NoUser /\ Fault
           /\ ui' = [ui EXCEPT ![c] = [start EXCEPT !.userRole = "admin", !.isAdmin = TRUE]]
           /\ pc' = [pc EXCEPT ![c].bg = "f_cats"]

\* a checkUserRole that goes on to the insert of the student row although the
\* lookup has found a row
CheckUserRoleAlwaysInserts(c) ==
  /\ pc[c].bg = "role_lookup"
  /\ UNCHANGED_backend /\ UNCHANGED_browse /\ UNCHANGED <<sub, del>>
  /\ LET uid == session[c]
         start == [ui[c] EXCEPT !.loading = TRUE]
     IN \/ /\ uid = NoUser
           /\ ui' = [ui EXCEPT ![c] = [start EXCEPT !.userRole = "null", !.isAdmin = FALSE]]
           /\ pc' = [pc EXCEPT ![c].bg = "f_cats"]
           /\ UNCHANGED count
        \/ /\ uid # NoUser
           /\ pc' = [pc EXCEPT ![c].bg = "role_insert"]
           /\ UNCHANGED <<ui, count>>
        \/ /\ uid # NoUser /\ Fault
           /\ ui' = [ui EXCEPT ![c] = [start EXCEPT !.userRole = "student", !.isAdmin = FALSE]]
           /\ pc' = [pc EXCEPT ![c].bg = "f_cats"]

\* --------------------------------------------------------- checkUserRole
\* auth.getUser and the role lookup .single()
CheckUserRole(c) ==
  /\ pc[c].bg = "role_lookup"
  /\ UNCHANGED_backend /\ UNCHANGED_browse /\ UNCHANGED <<sub, del>>
  /\ LET uid == session[c]
         roles == {r \in user_roles : r.user_id = uid}
         start == [ui[c] EXCEPT !.loading = TRUE]
     IN \/ /\ uid = NoUser
           /\ ui' = [ui EXCEPT ![c] = [start EXCEPT !.userRole = "null", !.isAdmin = FALSE]]
           /\ pc' = [pc EXCEPT ![c].bg = "f_cats"]
           /\ UNCHANGED count
        \/ /\ uid # NoUser /\ Cardinality(roles) = 1
           /\ LET role == (CHOOSE r \in roles : TRUE).role
              IN ui' = [ui EXCEPT ![c] = [start EXCEPT !.userRole = role,
                                                       !.isAdmin = (role = "admin")]]
           /\ pc' = [pc EXCEPT ![c].bg = "f_cats"]
           /\ UNCHANGED count
        \/ /\ uid # NoUser /\ Cardinality(roles) # 1
           /\ pc' = [pc EXCEPT ![c].bg = "role_insert"]
           /\ UNCHANGED <<ui, count>>
        \/ /\ uid # NoUser /\ Fault
           /\ ui' = [ui EXCEPT ![c] = [start EXCEPT !.userRole = "student", !.isAdmin = FALSE]]
           /\ pc' = [pc EXCEPT ![c].bg = "f_cats"]

\* the insert of the default student row after PGRST116
CheckUserRoleInsert(c) ==
  /\ pc[c].bg = "role_insert"
  /\ UNCHANGED <<practice_categories, practice_questions, practice_notes, bucket,
                 objects, nextId, session, sub, del>>
  /\ UNCHANGED_browse
  /\ ui' = [ui EXCEPT ![c].userRole = "student", ![c].isAdmin = FALSE, ![c].loading = TRUE]
  /\ pc' = [pc EXCEPT ![c].bg = "f_cats"]
  /\ \/ user_roles' = user_roles \cup {[user_id |-> session[c], role |-> "student"]}
        /\ UNCHANGED count
     \/ Fault /\ UNCHANGED user_roles

\* ------------------------------------------------------ fetchPracticeData
\* fetchPracticeData runs in the mount effect and after handleDelete (thread
\* bg) and, awaited, at the end of handleSubmit (thread sub)
ErrorToast(msg) == [title |-> "Error", description |-> msg]
SuccessToast(msg) == [title |-> "Success", description |-> msg]

\* a return without the finally blocks
FetchReturnNoFinally(th, u) == u

\* finally { setLoading(false) }, and the rest of handleSubmit after its await
FetchReturn(th, u) ==
  IF th = "sub"
  THEN [u EXCEPT !.loading = FALSE, !.isDialogOpen = FALSE, !.uploading = FALSE]
  ELSE [u EXCEPT !.loading = FALSE]

\* a catch block that also empties the three lists
FetchCatchEmptying(c, th) ==
  /\ ui' = [ui EXCEPT ![c] = FetchReturn(th, [ui[c] EXCEPT !.toast = ErrorToast(MsgLoadFailed),
                                                       !.categories = <<>>,
                                                       !.questions = <<>>,
                                                       !.notes = <<>>])]
  /\ pc' = [pc EXCEPT ![c][th] = "idle"]

\* catch { toast } finally { setLoading(false) }
FetchCatch(c, th) ==
  /\ ui' = [ui EXCEPT ![c] = FetchReturn(th, [ui[c] EXCEPT !.toast = ErrorToast(MsgLoadFailed)])]
  /\ pc' = [pc EXCEPT ![c][th] = "idle"]

FetchFrame ==
  UNCHANGED <<user_roles, bucket, objects, session, sub, del, browse, bpc, inflight>>

FetchCategories(c, th) ==
  /\ pc[c][th] = "f_cats"
  /\ FetchFrame /\ UNCHANGED <<nextId>> /\ UNCHANGED_store
  /\ \/ Fault /\ FetchCatch(c, th)
     \/ /\ UNCHANGED count
        /\ \E categoriesData \in Ordered(Visible(practice_categories, session[c])) :
             IF Len(categoriesData) = 0
             THEN /\ pc' = [pc EXCEPT ![c][th] = "f_boot"]
                  /\ UNCHANGED ui
             ELSE /\ ui' = [ui EXCEPT ![c].categories = categoriesData]
                  /\ pc' = [pc EXCEPT ![c][th] = "f_questions"]

\* a createDefaultCategories that throws on every insert failure
CreateDefaultsThrowsAlways(error) == error # ErrNone

\* createDefaultCategories: the insert and what it throws
CreateDefaultsThrows(error) ==
  /\ error # ErrNone
  /\ ~Includes(error.message, <<"duplicate", "key">>)
  /\ ~Includes(error.message, <<"already", "exists">>)

\* the effect of the insert of the default rows on the table
InsertDefaults(uid, error) ==
  IF error = ErrNone
  THEN /\ nextId + Len(defaultCategories) <= MaxId
       /\ practice_categories' = practice_categories \cup WithIds(defaultCategories, nextId)
       /\ nextId' = nextId + Len(defaultCategories)
  ELSE UNCHANGED <<practice_categories, nextId>>

FetchCreateDefaults(c, th) ==
  /\ pc[c][th] = "f_boot"
  /\ FetchFrame /\ UNCHANGED <<practice_questions, practice_notes>>
  /\ \/ /\ Fault /\ FetchCatch(c, th)
        /\ UNCHANGED <<practice_categories, nextId>>
     \/ /\ UNCHANGED count
        /\ LET error == InsertCategoriesError(session[c])
           IN /\ InsertDefaults(session[c], error)
              /\ IF CreateDefaultsThrows(error)
                 THEN FetchCatch(c, th)
                 ELSE pc' = [pc EXCEPT ![c][th] = "f_cats2"] /\ UNCHANGED ui

FetchCategoriesAgain(c, th) ==
  /\ pc[c][th] = "f_cats2"
  /\ FetchFrame /\ UNCHANGED <<nextId>> /\ UNCHANGED_store
  /\ \/ Fault /\ FetchCatch(c, th)
     \/ /\ UNCHANGED count
        /\ \E newCategoriesData \in Ordered(Visible(practice_categories, session[c])) :
             ui' = [ui EXCEPT ![c].categories = newCategoriesData]
        /\ pc' = [pc EXCEPT ![c][th] = "f_questions"]

FetchQuestions(c, th) ==
  /\ pc[c][th] = "f_questions"
  /\ FetchFrame /\ UNCHANGED <<nextId>> /\ UNCHANGED_store
  /\ \/ Fault /\ FetchCatch(c, th)
     \/ /\ UNCHANGED count
        /\ \E questionsData \in Ordered(Visible(practice_questions, session[c])) :
             ui' = [ui EXCEPT ![c].questions = questionsData]
        /\ pc' = [pc EXCEPT ![c][th] = "f_notes"]

FetchNotes(c, th) ==
  /\ pc[c][th] = "f_notes"
  /\ FetchFrame /\ UNCHANGED <<nextId>> /\ UNCHANGED_store
  /\ \/ Fault /\ FetchCatch(c, th)
     \/ /\ UNCHANGED count
        /\ \E notesData \in Ordered(Visible(practice_notes, session[c])) :
             ui' = [ui EXCEPT ![c] = FetchReturn(th, [ui[c] EXCEPT !.notes = notesData])]
        /\ pc' = [pc EXCEPT ![c][th] = "idle"]

\* ------------------------------------------------------------ the dialog
\* if (loading) return <spinner>; the dialog and the edit and delete buttons
\* are rendered only under {isAdmin && ...}
Rendered(c) == ~ui[c].loading
AdminControls(c) == Rendered(c) /\ ui[c].isAdmin

resetForm(u) ==
  [u EXCEPT !.formData = DefaultForm, !.pdfFile = NullFile,
            !.editingItem = NullItem, !.formErrors = <<>>]

UiFrame == UNCHANGED_backend /\ UNCHANGED_browse /\ UNCHANGED <<pc, sub, del, count>>

ListOf(c) == IF ui[c].activeTab = "questions" THEN ui[c].questions ELSE ui[c].notes

\* DialogTrigger: onOpenChange(true)
OpenDialog(c) ==
  /\ AdminControls(c) /\ ~ui[c].isDialogOpen
  /\ ui' = [ui EXCEPT ![c].isDialogOpen = TRUE, ![c].toast = NoToast]
  /\ UiFrame

\* the Cancel button, and onOpenChange(false)
CloseDialog(c) ==
  /\ AdminControls(c) /\ ui[c].isDialogOpen
  /\ ui' = [ui EXCEPT ![c] = resetForm([ui[c] EXCEPT !.isDialogOpen = FALSE,
                                                     !.toast = NoToast])]
  /\ UiFrame

handleEdit(c) ==
  /\ AdminControls(c) /\ ~ui[c].isDialogOpen
  /\ \E item \in Range(ListOf(c)) :
       ui' = [ui EXCEPT ![c].editingItem = item,
                        ![c].formData =
                          [title |-> item.title, description |-> item.description,
                           category_id |-> item.category_id,
                           difficulty_level |->
                             IF "difficulty_level" \in DOMAIN item
                             THEN item.difficulty_level ELSE "medium",
                           subject |-> item.subject, class_level |-> item.class_level,
                           order_index |-> item.order_index],
                        ![c].isDialogOpen = TRUE, ![c].toast = NoToast]
  /\ UiFrame

\* Tabs onValueChange
setActiveTab(c) ==
  /\ Rendered(c) /\ ~ui[c].isDialogOpen
  /\ ui' = [ui EXCEPT ![c].activeTab = IF @ = "questions" THEN "notes" ELSE "questions",
                      ![c].toast = NoToast]
  /\ UiFrame

\* ------------------------------------------------------------ handleSubmit
\* the value of the category Select: '' for auto-assign, else a category id
Picked(c, pick) ==
  IF pick = "auto" \/ Len(ui[c].categories) = 0 THEN 0 ELSE ui[c].categories[1].id

Called(c, name) == [sub[c] EXCEPT !.calls = Append(@, name)]

\* a catch block that raises the notification and leaves formErrors alone
ThrowToastOnly(c, s, msg) ==
  /\ ui' = [ui EXCEPT ![c].toast = ErrorToast(msg), ![c].uploading = FALSE]
  /\ sub' = [sub EXCEPT ![c] = [s EXCEPT !.result = "error"]]
  /\ pc' = [pc EXCEPT ![c].sub = "idle"]

\* a catch block that reports the error and lets the handler go on
ThrowAndGoOn(c, s, msg) ==
  /\ ui' = [ui EXCEPT ![c].formErrors = <<msg>>, ![c].toast = ErrorToast(msg),
                      ![c].uploading = FALSE]
  /\ sub' = [sub EXCEPT ![c] = [s EXCEPT !.result = "error"]]
  /\ pc' = pc

\* catch: setFormErrors, toast; finally: setUploading(false)
Throw(c, s, msg) ==
  /\ ui' = [ui EXCEPT ![c].formErrors = <<msg>>, ![c].toast = ErrorToast(msg),
                      ![c].uploading = FALSE]
  /\ sub' = [sub EXCEPT ![c] = [s EXCEPT !.result = "error"]]
  /\ pc' = [pc EXCEPT ![c].sub = "idle"]

\* the first pending call after validation: the bootstrap when the category
\* is empty and no category is loaded, the authentication otherwise
AfterValidation(formData, categories) ==
  IF formData.category_id = 0 /\ Len(categories) = 0 THEN "s_boot" ELSE "s_auth"

\* a resolution that takes the last category of the list
ResolvedCategoryLast(formData, categories) ==
  IF formData.category_id # 0 THEN formData.category_id
  ELSE IF Len(categories) = 0 THEN 0 ELSE categories[Len(categories)].id

ResolvedCategory(formData, categories) ==
  IF formData.category_id # 0 THEN formData.category_id
  ELSE IF Len(categories) = 0 THEN 0 ELSE categories[1].id

\* the submit button: the fields as typed, validation, category resolution;
\* callerAdmin records the stored role of the caller at that moment
handleSubmitOf(c, submissions) ==
  /\ AdminControls(c) /\ ui[c].isDialogOpen /\ ~ui[c].uploading
  /\ pc[c].sub = "idle"
  /\ Started
  /\ UNCHANGED_backend /\ UNCHANGED_browse /\ UNCHANGED del
  /\ \E s \in submissions :
       LET formData == [s.form EXCEPT !.category_id = Picked(c, s.pick)]
           closure == [formData |-> formData, pdfFile |-> s.file,
                       editingItem |-> ui[c].editingItem, isAdmin |-> ui[c].isAdmin,
                       categories |-> ui[c].categories, activeTab |-> ui[c].activeTab,
                       categoryId |-> ResolvedCategory(formData, ui[c].categories),
                       pdfUrl |-> <<>>, calls |-> <<>>, result |-> "running",
                       callerAdmin |-> has_role(session[c], "admin")]
           validationErrors == validateForm(formData, s.file)
           typed == [ui[c] EXCEPT !.formData = formData, !.pdfFile = s.file]
       IN IF Len(validationErrors) > 0
          THEN /\ ui' = [ui EXCEPT ![c] = [typed EXCEPT !.formErrors = validationErrors,
                                                        !.uploading = FALSE]]
               /\ sub' = [sub EXCEPT ![c] = [closure EXCEPT !.result = "validation"]]
               /\ UNCHANGED pc
          ELSE /\ ui' = [ui EXCEPT ![c] = [typed EXCEPT !.formErrors = <<>>,
                                                        !.uploading = TRUE]]
               /\ sub' = [sub EXCEPT ![c] = closure]
               /\ pc' = [pc EXCEPT ![c].sub = AfterValidation(formData, ui[c].categories)]

handleSubmit(c) == handleSubmitOf(c, Submissions)

SubmitFrame == UNCHANGED <<user_roles, session, del, browse, bpc, inflight>>

\* createDefaultCategories called from handleSubmit
SubmitCreateDefaults(c) ==
  /\ pc[c].sub = "s_boot"
  /\ SubmitFrame /\ UNCHANGED <<practice_questions, practice_notes, bucket, objects>>
  /\ LET s == Called(c, "practice_categories.insert")
     IN \/ /\ Fault /\ Throw(c, s, MsgInitFailed)
           /\ UNCHANGED <<practice_categories, nextId>>
        \/ /\ UNCHANGED count
           /\ LET error == InsertCategoriesError(session[c])
              IN /\ InsertDefaults(session[c], error)
                 /\ IF CreateDefaultsThrows(error)
                    THEN Throw(c, s, MsgInitFailed)
                    ELSE /\ pc' = [pc EXCEPT ![c].sub = "s_catsel"]
                         /\ sub' = [sub EXCEPT ![c] = s]
                         /\ UNCHANGED ui

\* the refetch .order('order_index').limit(1) after the bootstrap
SubmitSelectCategory(c) ==
  /\ pc[c].sub = "s_catsel"
  /\ SubmitFrame /\ UNCHANGED_store /\ UNCHANGED <<bucket, objects, nextId>>
  /\ LET s == Called(c, "practice_categories.select")
     IN \/ Fault /\ Throw(c, s, MsgNoCategory)
        \/ /\ UNCHANGED count
           /\ \E newCategoriesData \in Ordered(Visible(practice_categories, session[c])) :
                IF Len(newCategoriesData) > 0
                THEN /\ sub' = [sub EXCEPT ![c] =
                                  [s EXCEPT !.categoryId = newCategoriesData[1].id]]
                     /\ pc' = [pc EXCEPT ![c].sub = "s_auth"]
                     /\ UNCHANGED ui
                ELSE Throw(c, s, MsgNoCategory)

\* an authorization step that looks the role up whatever the cached flag says
SubmitAuthorizeUncached(c) ==
  /\ pc[c].sub = "s_auth"
  /\ SubmitFrame /\ UNCHANGED_store /\ UNCHANGED <<bucket, objects, nextId>>
  /\ LET s1 == Called(c, "auth.getUser")
         s2 == [s1 EXCEPT !.calls = Append(@, "user_roles.select")]
         roles == {r \in user_roles : r.user_id = session[c]}
         next == IF sub[c].pdfFile # NullFile THEN "s_buckets" ELSE "s_write"
     IN \/ Fault /\ Throw(c, s1, MsgAuthRequired)
        \/ /\ UNCHANGED count
           /\ IF session[c] = NoUser THEN Throw(c, s1, MsgAuthRequired)
              ELSE IF roles = {[user_id |-> session[c], role |-> "admin"]}
              THEN /\ sub' = [sub EXCEPT ![c] = s2]
                   /\ pc' = [pc EXCEPT ![c].sub = next]
                   /\ UNCHANGED ui
              ELSE Throw(c, s2, MsgAdminRequired)

\* auth.getUser, and the role lookup when the cached isAdmin is false
SubmitAuthorize(c) ==
  /\ pc[c].sub = "s_auth"
  /\ SubmitFrame /\ UNCHANGED_store /\ UNCHANGED <<bucket, objects, nextId>>
  /\ LET s1 == Called(c, "auth.getUser")
         s2 == [s1 EXCEPT !.calls = Append(@, "user_roles.select")]
         roles == {r \in user_roles : r.user_id = session[c]}
         next == IF sub[c].pdfFile # NullFile THEN "s_buckets" ELSE "s_write"
     IN \/ Fault /\ Throw(c, s1, MsgAuthRequired)
        \/ /\ UNCHANGED count
           /\ IF session[c] = NoUser THEN Throw(c, s1, MsgAuthRequired)
              ELSE IF sub[c].isAdmin
              THEN /\ sub' = [sub EXCEPT ![c] = s1]
                   /\ pc' = [pc EXCEPT ![c].sub = next]
                   /\ UNCHANGED ui
              ELSE IF roles = {[user_id |-> session[c], role |-> "admin"]}
              THEN /\ sub' = [sub EXCEPT ![c] = s2]
                   /\ pc' = [pc EXCEPT ![c].sub = next]
                   /\ UNCHANGED ui
              ELSE Throw(c, s2, MsgAdminRequired)

\* ---------------------------------------------------------------- uploadPDF
\* the message uploadPDF throws for an upload error
uploadErrorMessage(uploadError) ==
  IF Includes(uploadError.message, <<"not", "found">>) THEN MsgBucketNotFound
  ELSE IF Includes(uploadError.message, <<"permission">>)
          \/ Includes(uploadError.message, <<"unauthorized">>) THEN MsgUploadDenied
  ELSE IF Includes(uploadError.message, <<"duplicate">>)
          \/ Includes(uploadError.message, <<"already", "exists">>) THEN MsgFileExists
  ELSE <<"Upload", "failed:">> \o uploadError.message

\* an upload with upsert: true, which replaces a stored object of the same name
UploadErrorUpsert(uid, fileName) ==
  IF ~has_role(uid, "admin") THEN ErrRls ELSE ErrNone

\* INSERT policy of storage.objects, and upsert: false
UploadError(uid, fileName) ==
  IF ~has_role(uid, "admin") THEN ErrRls
  ELSE IF fileName \in objects THEN ErrObjectExists
  ELSE ErrNone

getPublicUrl(fileName) == <<fileName>>

\* the type and size checks of uploadPDF, then storage.listBuckets
SubmitListBuckets(c) ==
  /\ pc[c].sub = "s_buckets"
  /\ SubmitFrame /\ UNCHANGED_store /\ UNCHANGED <<bucket, objects, nextId>>
  /\ LET file == sub[c].pdfFile
         s == Called(c, "storage.listBuckets")
     IN IF ~Includes(file.type, <<"p", "d", "f">>)
        THEN Throw(c, sub[c], MsgUploadPrefix \o MsgPdfOnly) /\ UNCHANGED count
        ELSE IF file.size > MaxFileSize
        THEN Throw(c, sub[c], MsgUploadPrefix \o MsgFileBig) /\ UNCHANGED count
        ELSE \/ Fault /\ Throw(c, s, MsgUploadPrefix \o MsgStorageDown)
             \/ /\ UNCHANGED <<count, ui>>
                /\ sub' = [sub EXCEPT ![c] = s]
                /\ pc' = [pc EXCEPT ![c].sub = IF bucket THEN "s_upload" ELSE "s_mkbucket"]

SubmitCreateBucket(c) ==
  /\ pc[c].sub = "s_mkbucket"
  /\ SubmitFrame /\ UNCHANGED_store /\ UNCHANGED <<objects, nextId>>
  /\ LET s == Called(c, "storage.createBucket")
     IN \/ Fault /\ Throw(c, s, MsgUploadPrefix \o MsgNoBucket) /\ UNCHANGED bucket
        \/ /\ UNCHANGED <<count, ui>>
           /\ bucket' = TRUE
           /\ sub' = [sub EXCEPT ![c] = s]
           /\ pc' = [pc EXCEPT ![c].sub = "s_upload"]

\* storage.upload under the generated name, then getPublicUrl
SubmitUpload(c) ==
  /\ pc[c].sub = "s_upload"
  /\ SubmitFrame /\ UNCHANGED_store /\ UNCHANGED <<bucket, nextId>>
  /\ LET s == Called(c, "storage.upload")
     IN \/ /\ Fault /\ UNCHANGED objects
           /\ Throw(c, s, MsgUploadPrefix \o uploadErrorMessage(ErrNetwork))
        \/ /\ UNCHANGED count
           /\ \E fileName \in 1..MaxObjects :
                LET uploadError == UploadError(session[c], fileName)
                IN IF uploadError # ErrNone
                   THEN /\ Throw(c, s, MsgUploadPrefix \o uploadErrorMessage(uploadError))
                        /\ UNCHANGED objects
                   ELSE /\ objects' = objects \cup {fileName}
                        /\ sub' = [sub EXCEPT ![c] =
                                     [s EXCEPT !.pdfUrl = getPublicUrl(fileName)]]
                        /\ pc' = [pc EXCEPT ![c].sub = "s_write"]
                        /\ UNCHANGED ui

\* ------------------------------------------------------- the record write
\* editingItem?.pdf_url || ''
KeptUrl(editingItem) ==
  IF editingItem = NullItem THEN <<>>
  ELSE IF editingItem.pdf_url = <<0>> THEN <<>>
  ELSE editingItem.pdf_url

\* a payload that never takes the URL of the upload
dataToSubmitKeptUrl(s) ==
  [title |-> s.formData.title, description |-> s.formData.description,
   category_id |-> s.categoryId,
   difficulty_level |-> s.formData.difficulty_level,
   subject |-> s.formData.subject, class_level |-> s.formData.class_level,
   order_index |-> s.formData.order_index,
   pdf_url |-> KeptUrl(s.editingItem),
   is_active |-> TRUE]

\* a payload without is_active: the column default of a deactivated table
dataToSubmitInactive(s) ==
  [title |-> s.formData.title, description |-> s.formData.description,
   category_id |-> s.categoryId,
   difficulty_level |-> s.formData.difficulty_level,
   subject |-> s.formData.subject, class_level |-> s.formData.class_level,
   order_index |-> s.formData.order_index,
   pdf_url |-> IF s.pdfUrl # <<>> THEN s.pdfUrl ELSE KeptUrl(s.editingItem),
   is_active |-> FALSE]

dataToSubmit(s) ==
  [title |-> s.formData.title, description |-> s.formData.description,
   category_id |-> s.categoryId,
   difficulty_level |-> s.formData.difficulty_level,
   subject |-> s.formData.subject, class_level |-> s.formData.class_level,
   order_index |-> s.formData.order_index,
   pdf_url |-> IF s.pdfUrl # <<>> THEN s.pdfUrl ELSE KeptUrl(s.editingItem),
   is_active |-> TRUE]

\* the table after the insert or update of the payload by uid
Written(tab, uid, editingItem, data, id) ==
  IF editingItem = NullItem
  THEN Table(tab) \cup {AsRow(tab, id, data)}
  ELSE (Table(tab) \ Matched(tab, uid, editingItem.id))
       \cup {AsRow(tab, r.id, data) : r \in Matched(tab, uid, editingItem.id)}

WriteError(tab, uid, editingItem, data) ==
  IF editingItem = NullItem THEN InsertError(tab, uid, data)
  ELSE UpdateError(tab, uid, editingItem.id, data)

\* the insert or update, then toast, resetForm and the start of the refetch
SubmitWrite(c) ==
  /\ pc[c].sub = "s_write"
  /\ SubmitFrame /\ UNCHANGED <<practice_categories, bucket, objects>>
  /\ LET tab == sub[c].activeTab
         editing == sub[c].editingItem
         data == dataToSubmit(sub[c])
         s == Called(c, IF editing = NullItem THEN "record.insert" ELSE "record.update")
     IN \/ /\ Fault /\ Throw(c, s, errorMessage(ErrNetwork))
           /\ UNCHANGED <<practice_questions, practice_notes, nextId>>
        \/ /\ UNCHANGED count
           /\ LET dbError == WriteError(tab, session[c], editing, data)
              IN IF dbError # ErrNone
                 THEN /\ Throw(c, s, errorMessage(dbError))
                      /\ UNCHANGED <<practice_questions, practice_notes, nextId>>
                 ELSE /\ editing = NullItem => nextId < MaxId
                      /\ nextId' = IF editing = NullItem THEN nextId + 1 ELSE nextId
                      /\ IF tab = "questions"
                         THEN /\ practice_questions' =
                                   Written(tab, session[c], editing, data, nextId + 1)
                              /\ UNCHANGED practice_notes
                         ELSE /\ practice_notes' =
                                   Written(tab, session[c], editing, data, nextId + 1)
                              /\ UNCHANGED practice_questions
                      /\ ui' = [ui EXCEPT ![c] =
                                  resetForm([ui[c] EXCEPT !.toast = SuccessToast(MsgSaved),
                                                          !.loading = TRUE])]
                      /\ sub' = [sub EXCEPT ![c] = [s EXCEPT !.result = "success"]]
                      /\ pc' = [pc EXCEPT ![c].sub = "f_cats"]

\* ------------------------------------------------------------ handleDelete
\* the delete button of a listed item
handleDelete(c) ==
  /\ AdminControls(c) /\ ~ui[c].isDialogOpen
  /\ pc[c].bg = "idle"
  /\ \E item \in Range(ListOf(c)) :
       del' = [del EXCEPT ![c] = [id |-> item.id, type |-> ui[c].activeTab]]
  /\ pc' = [pc EXCEPT ![c].bg = "d_delete"]
  /\ Started
  /\ UNCHANGED_backend /\ UNCHANGED_browse /\ UNCHANGED <<ui, sub>>

\* .delete().eq('id', id), then toast and the start of the refetch
DeleteRecord(c) ==
  /\ pc[c].bg = "d_delete"
  /\ UNCHANGED <<practice_categories, user_roles, bucket, objects, nextId, session,
                 sub, del, browse, bpc, inflight>>
  /\ \/ /\ Fault
        /\ ui' = [ui EXCEPT ![c].toast = ErrorToast(MsgDeleteFailed)]
        /\ pc' = [pc EXCEPT ![c].bg = "idle"]
        /\ UNCHANGED <<practice_questions, practice_notes>>
     \/ /\ UNCHANGED count
        /\ IF del[c].type = "questions"
           THEN /\ practice_questions' =
                     practice_questions \ Matched("questions", session[c], del[c].id)
                /\ UNCHANGED practice_notes
           ELSE /\ practice_notes' =
                     practice_notes \ Matched("notes", session[c], del[c].id)
                /\ UNCHANGED practice_questions
        /\ ui' = [ui EXCEPT ![c].toast = SuccessToast(MsgDeleted), ![c].loading = TRUE]
        /\ pc' = [pc EXCEPT ![c].bg = "f_cats"]

\* ------------------------------------------------- a listing on the wire
\* the listing of questions as the two events it is: the store answers the
\* request, and later the response resumes fetchPracticeData
FetchQuestionsRequest(c, th) ==
  /\ pc[c][th] = "f_questions"
  /\ UNCHANGED <<user_roles, bucket, objects, session, sub, del, browse, bpc, ui, count>>
  /\ UNCHANGED <<nextId>> /\ UNCHANGED_store
  /\ \E questionsData \in Ordered(Visible(practice_questions, session[c])) :
       inflight' = [inflight EXCEPT ![c][th] = questionsData]
  /\ pc' = [pc EXCEPT ![c][th] = "f_questions_wait"]

FetchQuestionsResponse(c, th) ==
  /\ pc[c][th] = "f_questions_wait"
  /\ UNCHANGED <<user_roles, bucket, objects, session, sub, del, browse, bpc, count>>
  /\ UNCHANGED <<nextId>> /\ UNCHANGED_store
  /\ ui' = [ui EXCEPT ![c].questions = inflight[c][th]]
  /\ inflight' = [inflight EXCEPT ![c][th] = <<>>]
  /\ pc' = [pc EXCEPT ![c][th] = "f_notes"]

\* ------------------------------------------------------------ environment
\* what other admin sessions do to the backend under the FOR ALL policies
ArchiveCategory(id, active) ==
  [id |-> id, name |-> "Archive", order_index |-> 0, is_active |-> active]

EnvFrame ==
  UNCHANGED <<bucket, objects, session, ui, pc, sub, del, browse, bpc, inflight>>

EnvAddCategory(active) ==
  /\ OtherWrite /\ nextId < MaxId
  /\ \A r \in practice_categories : r.name # "Archive"
  /\ practice_categories' = practice_categories \cup {ArchiveCategory(nextId + 1, active)}
  /\ nextId' = nextId + 1
  /\ EnvFrame /\ UNCHANGED <<practice_questions, practice_notes, user_roles>>

\* ON DELETE CASCADE removes the questions and notes of the category
EnvDeleteCategory ==
  /\ OtherWrite
  /\ \E cat \in practice_categories :
       /\ \A o \in practice_categories : cat.order_index <= o.order_index
       /\ practice_categories' = practice_categories \ {cat}
       /\ practice_questions' = {q \in practice_questions : q.category_id # cat.id}
       /\ practice_notes' = {n \in practice_notes : n.category_id # cat.id}
  /\ EnvFrame /\ UNCHANGED <<nextId, user_roles>>

EnvRevokeAdmin(u) ==
  /\ OtherWrite
  /\ has_role(u, "admin")
  /\ user_roles' = (user_roles \ {[user_id |-> u, role |-> "admin"]})
                     \cup {[user_id |-> u, role |-> "student"]}
  /\ EnvFrame /\ UNCHANGED <<nextId>> /\ UNCHANGED_store

\* another session edits a question and uploads a new file for it
EnvReplacePdf ==
  /\ OtherWrite
  /\ \E q \in practice_questions, fileName \in 1..MaxObjects :
       /\ fileName \notin objects
       /\ objects' = objects \cup {fileName}
       /\ practice_questions' =
            (practice_questions \ {q}) \cup {[q EXCEPT !.pdf_url = getPublicUrl(fileName)]}
  /\ UNCHANGED <<bucket, session, ui, pc, sub, del, browse, bpc, inflight>>
  /\ UNCHANGED <<nextId, user_roles, practice_categories, practice_notes>>

EnvSetActive ==
  /\ OtherWrite
  /\ \/ \E q \in practice_questions :
          /\ practice_questions' =
               (practice_questions \ {q}) \cup {[q EXCEPT !.is_active = ~q.is_active]}
          /\ UNCHANGED practice_notes
     \/ \E n \in practice_notes :
          /\ practice_notes' =
               (practice_notes \ {n}) \cup {[n EXCEPT !.is_active = ~n.is_active]}
          /\ UNCHANGED practice_questions
  /\ EnvFrame /\ UNCHANGED <<nextId, user_roles, practice_categories>>

\* ------------------------------------------------------------- browse view
Viewer == "u1"

BrowseFrame ==
  /\ UNCHANGED_backend /\ UNCHANGED <<ui, pc, sub, del, inflight>>

\* a listing request without .eq('is_active', true)
ActiveOnlyDropped(rows) == rows

\* the listing requests of the browse view: .eq('is_active', true)
ActiveOnly(rows) == {r \in rows : r.is_active}

BrowseCatch ==
  /\ browse' = [browse EXCEPT !.toast = ErrorToast(MsgBrowseLoadFailed), !.loading = FALSE]
  /\ bpc' = "idle"

\* the effect on [user, navigate] starts fetchPracticeData
BrowseStart ==
  /\ bpc \in {"off", "idle"}
  /\ browse' = [browse EXCEPT !.loading = TRUE]
  /\ bpc' = "f_cats"
  /\ BrowseFrame /\ UNCHANGED count

BrowseFetchCategories ==
  /\ bpc = "f_cats"
  /\ BrowseFrame
  /\ \/ Fault /\ BrowseCatch
     \/ /\ UNCHANGED count
        /\ \E categoriesData \in Ordered(ActiveOnly(Visible(practice_categories, Viewer))) :
             browse' = [browse EXCEPT !.categories = categoriesData]
        /\ bpc' = "f_questions"

BrowseFetchQuestions ==
  /\ bpc = "f_questions"
  /\ BrowseFrame
  /\ \/ Fault /\ BrowseCatch
     \/ /\ UNCHANGED count
        /\ \E questionsData \in Ordered(ActiveOnly(Visible(practice_questions, Viewer))) :
             browse' = [browse EXCEPT !.questions = questionsData]
        /\ bpc' = "f_notes"

BrowseFetchNotes ==
  /\ bpc = "f_notes"
  /\ BrowseFrame
  /\ \/ Fault /\ BrowseCatch
     \/ /\ UNCHANGED count
        /\ \E notesData \in Ordered(ActiveOnly(Visible(practice_notes, Viewer))) :
             browse' = [browse EXCEPT !.notes = notesData, !.loading = FALSE]
        /\ bpc' = "idle"

BrowseSetActiveTab ==
  /\ ~browse.loading
  /\ browse' = [browse EXCEPT !.activeTab = IF @ = "questions" THEN "notes" ELSE "questions"]
  /\ UNCHANGED bpc
  /\ BrowseFrame /\ UNCHANGED count

\* the items rendered under a category, and the groups that are rendered
BrowseList == IF browse.activeTab = "questions" THEN browse.questions ELSE browse.notes

GroupItems(category) ==
  LET InCategory(item) == item.category_id = category.id
  IN SelectSeq(BrowseList, InCategory)

DisplayedGroups ==
  LET NonEmpty(category) == Len(GroupItems(category)) # 0
  IN IF browse.loading THEN <<>> ELSE SelectSeq(browse.categories, NonEmpty)

\* ------------------------------------------------------------ specifications
ClientStep(c) ==
  \/ CheckUserRole(c)
  \/ CheckUserRoleInsert(c)
  \/ \E th \in Threads :
       \/ FetchCategories(c, th)
       \/ FetchCreateDefaults(c, th)
       \/ FetchCategoriesAgain(c, th)
       \/ FetchQuestions(c, th)
       \/ FetchNotes(c, th)
  \/ OpenDialog(c)
  \/ CloseDialog(c)
  \/ handleEdit(c)
  \/ setActiveTab(c)
  \/ handleSubmit(c)
  \/ SubmitCreateDefaults(c)
  \/ SubmitSelectCategory(c)
  \/ SubmitAuthorize(c)
  \/ SubmitListBuckets(c)
  \/ SubmitCreateBucket(c)
  \/ SubmitUpload(c)
  \/ SubmitWrite(c)
  \/ handleDelete(c)
  \/ DeleteRecord(c)

EnvStep ==
  \/ EnvAddCategory(TRUE)
  \/ EnvDeleteCategory
  \/ EnvRevokeAdmin("u1")
  \/ EnvReplacePdf

\* the admin screen of one session next to the other sessions' writes
Next ==
  \/ ClientStep("c1")
  \/ EnvStep

Spec == Init /\ [][Next]_vars

\* two admin screens that load and submit at the same time
RaceSubmissions == {s \in Submissions : s.form = FormAlgebra /\ s.file = NullFile}

RaceStep(c) ==
  \/ CheckUserRole(c)
  \/ CheckUserRoleInsert(c)
  \/ \E th \in Threads :
       \/ FetchCategories(c, th)
       \/ FetchCreateDefaults(c, th)
       \/ FetchCategoriesAgain(c, th)
       \/ FetchQuestions(c, th)
       \/ FetchNotes(c, th)
  \/ OpenDialog(c)
  \/ handleSubmitOf(c, RaceSubmissions)
  \/ SubmitCreateDefaults(c)
  \/ SubmitSelectCategory(c)
  \/ SubmitAuthorize(c)
  \/ SubmitWrite(c)

NextRace == \E c \in Clients : RaceStep(c)

SpecRace == Init /\ [][NextRace]_vars

\* one admin screen whose delete and submission overlap, with the listing of
\* questions on the wire
RefetchStep(c) ==
  \/ CheckUserRole(c)
  \/ CheckUserRoleInsert(c)
  \/ \E th \in Threads :
       \/ FetchCategories(c, th)
       \/ FetchCreateDefaults(c, th)
       \/ FetchCategoriesAgain(c, th)
       \/ FetchQuestionsRequest(c, th)
       \/ FetchQuestionsResponse(c, th)
       \/ FetchNotes(c, th)
  \/ OpenDialog(c)
  \/ handleSubmitOf(c, RaceSubmissions)
  \/ SubmitCreateDefaults(c)
  \/ SubmitSelectCategory(c)
  \/ SubmitAuthorize(c)
  \/ SubmitWrite(c)
  \/ handleDelete(c)
  \/ DeleteRecord(c)

NextRefetch == RefetchStep("c1")

SpecRefetch == Init /\ [][NextRefetch]_vars

\* two mounts of the admin screen by one user: checkUserRole runs once in each
\* mount effect, so the second mount is the repeated call for that user
InitRole ==
  /\ \E db \in InitialDatabases : InitStore(db)
  /\ user_roles \in InitialRoles
  /\ session = [c \in Clients |-> "u1"]
  /\ InitClients

MountStep(c) ==
  \/ CheckUserRole(c)
  \/ CheckUserRoleInsert(c)
  \/ \E th \in Threads :
       \/ FetchCategories(c, th)
       \/ FetchCreateDefaults(c, th)
       \/ FetchCategoriesAgain(c, th)
       \/ FetchQuestions(c, th)
       \/ FetchNotes(c, th)

NextRole ==
  \/ MountStep("c1")
  \/ MountStep("c2")

SpecRole == InitRole /\ [][NextRole]_vars

\* the listings of the admin screen, first and after a delete, next to the
\* listings of the browse view (defined below)
ListingStep(c) ==
  \/ CheckUserRole(c)
  \/ CheckUserRoleInsert(c)
  \/ \E th \in Threads :
       \/ FetchCategories(c, th)
       \/ FetchCreateDefaults(c, th)
       \/ FetchCategoriesAgain(c, th)
       \/ FetchQuestions(c, th)
       \/ FetchNotes(c, th)
  \/ setActiveTab(c)
  \/ handleDelete(c)
  \/ DeleteRecord(c)

BrowseStep ==
  \/ BrowseStart
  \/ BrowseFetchCategories
  \/ BrowseFetchQuestions
  \/ BrowseFetchNotes
  \/ BrowseSetActiveTab

NextBrowse ==
  \/ BrowseStep
  \/ \E active \in BOOLEAN : EnvAddCategory(active)
  \/ EnvDeleteCategory
  \/ EnvSetActive

SpecBrowse == Init /\ [][NextBrowse]_vars

\* one admin screen whose remote calls all return: the steps of a started
\* submission, the final refetch included, are taken whenever they can be
LiveSubmissions ==
  {s \in Submissions : s.form \in {FormAlgebra, DefaultForm} /\ s.file \in {NullFile, FilePdf}}

SubmissionStep(c) ==
  \/ SubmitCreateDefaults(c)
  \/ SubmitSelectCategory(c)
  \/ SubmitAuthorize(c)
  \/ SubmitListBuckets(c)
  \/ SubmitCreateBucket(c)
  \/ SubmitUpload(c)
  \/ SubmitWrite(c)
  \/ FetchCategories(c, "sub")
  \/ FetchCreateDefaults(c, "sub")
  \/ FetchCategoriesAgain(c, "sub")
  \/ FetchQuestions(c, "sub")
  \/ FetchNotes(c, "sub")

MountFetchStep(c) ==
  \/ CheckUserRole(c)
  \/ CheckUserRoleInsert(c)
  \/ FetchCategories(c, "bg")
  \/ FetchCreateDefaults(c, "bg")
  \/ FetchCategoriesAgain(c, "bg")
  \/ FetchQuestions(c, "bg")
  \/ FetchNotes(c, "bg")

LiveStep(c) ==
  \/ MountFetchStep(c)
  \/ OpenDialog(c)
  \/ CloseDialog(c)
  \/ handleEdit(c)
  \/ setActiveTab(c)
  \/ handleSubmitOf(c, LiveSubmissions)
  \/ SubmissionStep(c)

NextLive ==
  \/ LiveStep("c1")
  \/ EnvStep

SpecLive ==
  /\ Init /\ [][NextLive]_vars
  /\ WF_vars(MountFetchStep("c1")) /\ WF_vars(SubmissionStep("c1"))

\* the browse view over a catalogue with several questions in one category
\* and questions in two categories, one of which may be switched off
CatalogDatabases ==
  { [c |-> {[cat EXCEPT !.is_active = (cat.id # 3 \/ shown)] :
              cat \in WithIds(defaultCategories, 0)},
     q |-> {SeedQuestion(active),
            [SeedQuestion(TRUE) EXCEPT !.id = 7, !.order_index = 2],
            [SeedQuestion(TRUE) EXCEPT !.id = 8, !.category_id = 3, !.order_index = 1]},
     n |-> {SeedNote}, id |-> 8, bucket |-> TRUE] : active, shown \in BOOLEAN }

InitCatalog ==
  /\ \E db \in CatalogDatabases : InitStore(db)
  /\ user_roles \in InitialRoles
  /\ session \in InitialSessions
  /\ InitClients

SpecCatalog == InitCatalog /\ [][NextBrowse]_vars

NextListings == ListingStep("c1") \/ BrowseStep

SpecListings == Init /\ [][NextListings]_vars

\* ------------------------------------------------------------------ claims
Backend == <<practice_categories, practice_questions, practice_notes, user_roles,
             bucket, objects, nextId>>

\* a title that is empty after trimming or longer than 255 characters
TitleRejected(title) ==
  \/ \A i \in 1..Len(title) : title[i].ch \in Whitespace
  \/ Length(title) > MaxTitleLen

\* a submission that ended in validation: nothing pending, nothing written
EndsInValidation(c) ==
  /\ sub'[c].result = "validation"
  /\ sub'[c].calls = <<>>
  /\ pc'[c].sub = "idle"
  /\ ui'[c].formErrors # <<>>
  /\ ~ui'[c].uploading
  /\ UNCHANGED Backend

\* C1: a submission whose title is empty after trimming or longer than 255
\* characters ends with a validation error, issues no remote call and leaves
\* the stored tables unchanged
C1_InvalidTitleRejected ==
  /\ [](\A c \in Clients :
          sub[c].result = "validation" => sub[c].calls = <<>> /\ pc[c].sub = "idle")
  /\ [][\A c \in Clients :
          handleSubmit(c) /\ TitleRejected(sub'[c].formData.title)
            => EndsInValidation(c)]_vars

C1_Witness ==
  \E c \in Clients :
    /\ sub[c].result = "validation" /\ TitleRejected(sub[c].formData.title)
    /\ ui[c].formErrors # <<>> /\ ~ui[c].uploading

\* C2: a submission with a file that is not a PDF or is larger than 10 MB is
\* rejected before any remote call, whatever the other fields; a PDF of
\* exactly 10 MB raises no file error
C2_BadFileRejected ==
  [][\A c \in Clients :
       handleSubmit(c) =>
         LET file == sub'[c].pdfFile
         IN /\ (file # NullFile /\ (file.type # TypePdf \/ file.size > MaxFileSize))
                 => EndsInValidation(c)
            /\ (file # NullFile /\ file.type = TypePdf /\ file.size = MaxFileSize)
                 => /\ MsgPdfOnly \notin Range(ui'[c].formErrors)
                    /\ MsgFileBig \notin Range(ui'[c].formErrors)]_vars

\* the messages that tell the user that admin rights are missing
Denied(msg) ==
  msg \in {MsgAdminRequired, MsgPermission, MsgDbPermission, ErrRls.message}

NonAdmin(c) == session[c] # NoUser /\ ~has_role(session[c], "admin")

\* C3: for an authenticated caller whose stored role is not admin, create,
\* update and delete end in an authorization-denied error, and no row of the
\* three tables is created, modified or removed
C3_NonAdminWritesDenied ==
  [][\A c \in Clients :
       /\ (SubmitWrite(c) /\ NonAdmin(c) /\ count' = count)
            => /\ sub'[c].result = "error"
               /\ Denied(ui'[c].toast.description)
               /\ UNCHANGED store
       /\ (DeleteRecord(c) /\ NonAdmin(c) /\ count' = count)
            => /\ ui'[c].toast.title = "Error"
               /\ UNCHANGED store]_vars

WriteCalls ==
  {"practice_categories.insert", "storage.createBucket", "storage.upload",
   "record.insert", "record.update"}

\* C4: when the caller of handleSubmit is not admin, the submission issues no
\* write request (default categories, bucket, upload, record insert or update)
C4_NoWriteRequestByNonAdmin ==
  \A c \in Clients :
    (sub[c].result # "none" /\ ~sub[c].callerAdmin)
      => \A i \in 1..Len(sub[c].calls) : sub[c].calls[i] \notin WriteCalls

\* the rows a step writes into the questions and notes tables
WrittenRows ==
  (practice_questions' \ practice_questions) \cup (practice_notes' \ practice_notes)

LowestOrder(id, cats) ==
  \E cat \in cats : cat.id = id /\ \A o \in cats : cat.order_index <= o.order_index

\* C5 as claimed: a record submitted with an empty category_id while a category
\* exists is written with the id of the stored category of smallest order_index
C5_SmallestStoredOrderIndexUsed ==
  [][\A c \in Clients :
       (SubmitWrite(c) /\ sub[c].formData.category_id = 0 /\ practice_categories # {})
         => \A r \in WrittenRows : LowestOrder(r.category_id, practice_categories)]_vars

\* C5 as amended: the record is written with the id of the first category of
\* the list the screen held when the form was submitted, which is sorted by
\* order_index; when that list is empty, with the first category the refetch
\* after the bootstrap returns, the smallest order_index of the rows it sees
C5_FirstLoadedCategoryUsed ==
  [][\A c \in Clients :
       /\ (SubmitWrite(c) /\ sub[c].formData.category_id = 0)
            => \A r \in WrittenRows :
                 r.category_id = IF Len(sub[c].categories) > 0
                                 THEN sub[c].categories[1].id ELSE sub[c].categoryId
       /\ (SubmitSelectCategory(c) /\ pc'[c].sub = "s_auth")
            => LowestOrder(sub'[c].categoryId, Visible(practice_categories, session[c]))
       /\ \A i, j \in 1..Len(ui'[c].categories) :
            i <= j => ui'[c].categories[i].order_index <= ui'[c].categories[j].order_index]_vars

C5_Witness ==
  \E c \in Clients :
    /\ sub[c].result = "success" /\ sub[c].formData.category_id = 0
    /\ Len(sub[c].categories) > 0
    /\ \E q \in practice_questions :
         /\ q.category_id = sub[c].categories[1].id
         /\ ~LowestOrder(q.category_id, practice_categories)

DefaultNames == {defaultCategories[i].name : i \in 1..Len(defaultCategories)}

FourDefaults(cats) ==
  /\ Cardinality(cats) = 4
  /\ {r.name : r \in cats} = DefaultNames
  /\ {r.order_index : r \in cats} = 1..4
  /\ \A r1, r2 \in cats : r1.name = r2.name => r1 = r2

\* C6: a bootstrap run by an admin on an empty categories table creates exactly
\* the four default categories with order keys 1-4, an auto-assigned submission
\* that ran the bootstrap uses the category of lowest order key, and however
\* two clients interleave their bootstraps the table holds exactly four rows
\* with four different names
C6_BootstrapCreatesFourOnce ==
  /\ [](practice_categories # {} => FourDefaults(practice_categories))
  /\ [][\A c \in Clients :
          /\ (SubmitCreateDefaults(c) /\ practice_categories = {} /\ count' = count
                /\ has_role(session[c], "admin"))
               => FourDefaults(practice_categories') /\ pc'[c].sub = "s_catsel"
          /\ (SubmitSelectCategory(c) /\ count' = count)
               => /\ pc'[c].sub = "s_auth"
                  /\ LowestOrder(sub'[c].categoryId, practice_categories)
          /\ (SubmitWrite(c) /\ sub[c].formData.category_id = 0
                /\ Len(sub[c].categories) = 0)
               => \A r \in WrittenRows : LowestOrder(r.category_id, practice_categories)]_vars

C6_Witness ==
  \E c, d \in Clients :
    /\ c # d /\ FourDefaults(practice_categories)
    /\ pc[c].sub = "s_catsel" /\ pc[d].bg = "f_cats2"

\* C7: a successful edit without a new file leaves the stored pdf_url of the
\* record as it was in the store immediately before the update
C7_EditKeepsStoredPdfUrl ==
  [][\A c \in Clients :
       (SubmitWrite(c) /\ sub[c].editingItem # NullItem /\ sub[c].pdfFile = NullFile
          /\ sub'[c].result = "success")
         => /\ \A r \in practice_questions : \A r2 \in practice_questions' :
                 (r.id = sub[c].editingItem.id /\ r2.id = r.id) => r2.pdf_url = r.pdf_url
            /\ \A r \in practice_notes : \A r2 \in practice_notes' :
                 (r.id = sub[c].editingItem.id /\ r2.id = r.id) => r2.pdf_url = r.pdf_url]_vars

\* C8: after a handleDelete that reported success the record is gone from its
\* table, the other rows of that table are as before, and the other table and
\* the categories are unchanged
C8_DeleteRemovesExactlyTheRecord ==
  [][\A c \in Clients :
       (DeleteRecord(c) /\ ui'[c].toast = SuccessToast(MsgDeleted))
         => /\ practice_questions' =
                 IF del[c].type = "questions"
                 THEN {r \in practice_questions : r.id # del[c].id} ELSE practice_questions
            /\ practice_notes' =
                 IF del[c].type = "notes"
                 THEN {r \in practice_notes : r.id # del[c].id} ELSE practice_notes
            /\ del[c].id \notin Ids(IF del[c].type = "questions"
                                    THEN practice_questions' ELSE practice_notes')
            /\ UNCHANGED practice_categories]_vars

\* C9: a successful creation of a question stores one new row with the typed
\* title, difficulty, subject and class_level, an id no other row has, and
\* is_active true; every listing of questions returns every stored active row
C9_CreateThenList ==
  [][\A c \in Clients :
       /\ (SubmitWrite(c) /\ sub[c].editingItem = NullItem
             /\ sub[c].activeTab = "questions" /\ sub'[c].result = "success")
            => \E r \in practice_questions' :
                 /\ practice_questions' = practice_questions \cup {r}
                 /\ r.id \notin Ids(practice_categories) \cup Ids(practice_questions)
                                  \cup Ids(practice_notes)
                 /\ r.title = sub[c].formData.title
                 /\ r.difficulty_level = sub[c].formData.difficulty_level
                 /\ r.subject = sub[c].formData.subject
                 /\ r.class_level = sub[c].formData.class_level
                 /\ r.is_active
       /\ \A th \in Threads :
            (FetchQuestions(c, th) /\ count' = count)
              => /\ \A r \in practice_questions :
                      r.is_active => r \in Range(ui'[c].questions)
                 /\ Range(ui'[c].questions) \subseteq practice_questions
                 /\ Len(ui'[c].questions) = Cardinality(Range(ui'[c].questions))]_vars

C9_Witness ==
  \E c \in Clients :
    /\ sub[c].result = "success" /\ sub[c].editingItem = NullItem
    /\ sub[c].activeTab = "questions" /\ pc[c].sub = "idle"
    /\ \E i \in 1..Len(ui[c].questions) :
         LET r == ui[c].questions[i]
         IN /\ r.title = sub[c].formData.title /\ r.subject = sub[c].formData.subject
            /\ r.difficulty_level = sub[c].formData.difficulty_level
            /\ r.class_level = sub[c].formData.class_level
            /\ r.is_active /\ r.id = nextId

\* C10: in every state of the browse view each rendered category group holds at
\* least one fetched active item of the selected tab whose category_id is the
\* id of that category
C10_GroupsHaveActiveItems ==
  \A i \in 1..Len(DisplayedGroups) :
    \E item \in Range(BrowseList) :
      item.category_id = DisplayedGroups[i].id /\ item.is_active

C10_Witness ==
  /\ Len(DisplayedGroups) > 0
  /\ \E i \in 1..Len(browse.categories) : GroupItems(browse.categories[i]) = <<>>

\* the role rows of the user of client c
RolesOf(c) == {r \in user_roles : r.user_id = session[c]}

\* C11: isAdmin is true only with the role admin, it changes only in
\* checkUserRole, and checkUserRole sets it exactly when the lookup succeeded and
\* returned the one row admin; without a user the role is null, and after no
\* row, a failed lookup or an exception it is student, with isAdmin false
C11_RoleResolutionFailSafe ==
  /\ [](\A c \in Clients : ui[c].isAdmin => ui[c].userRole = "admin")
  /\ [][\A c \in Clients :
          /\ ui'[c].isAdmin # ui[c].isAdmin => CheckUserRole(c)
          /\ (CheckUserRole(c) /\ pc'[c].bg = "f_cats")
               => /\ ui'[c].isAdmin <=>
                       (session[c] # NoUser /\ count' = count
                          /\ RolesOf(c) = {[user_id |-> session[c], role |-> "admin"]})
                  /\ session[c] = NoUser => ui'[c].userRole = "null"
                  /\ (session[c] # NoUser /\ count' # count) => ui'[c].userRole = "student"
          /\ CheckUserRoleInsert(c)
               => ~ui'[c].isAdmin /\ ui'[c].userRole = "student"]_vars

C11_Witness ==
  \E c \in Clients :
    /\ has_role(session[c], "admin") /\ pc[c].bg # "role_lookup"
    /\ ~ui[c].isAdmin /\ ui[c].userRole = "student"

\* C12: once checkUserRole has completed for an authenticated user, the role
\* table holds exactly one role row for that user
C12_ExactlyOneRoleRow ==
  \A c \in Clients :
    (session[c] # NoUser /\ pc[c].bg \notin {"role_lookup", "role_insert"})
      => Cardinality(RolesOf(c)) = 1

\* the step of a submission a remote call belongs to: 1 category resolution,
\* 2 authorization, 3 upload, 4 record write
StepOf(call) ==
  IF call \in {"practice_categories.insert", "practice_categories.select"} THEN 1
  ELSE IF call \in {"auth.getUser", "user_roles.select"} THEN 2
  ELSE IF call \in {"storage.listBuckets", "storage.createBucket", "storage.upload"} THEN 3
  ELSE 4

\* the calls of every submission are in step order, none follows a rejected
\* validation, a failure ends the submission, and calls are only ever appended
StepsInOrder ==
  /\ [](\A c \in Clients :
          /\ \A i, j \in 1..Len(sub[c].calls) :
               i < j => /\ StepOf(sub[c].calls[i]) <= StepOf(sub[c].calls[j])
                        /\ StepOf(sub[c].calls[i]) # 4
          /\ sub[c].result = "validation" => sub[c].calls = <<>>
          /\ sub[c].result \in {"validation", "error"} => pc[c].sub = "idle")
  /\ [][\A c \in Clients :
          (sub'[c].calls # sub[c].calls /\ ~handleSubmit(c))
            => /\ sub[c].result = "running"
               /\ Len(sub'[c].calls) = Len(sub[c].calls) + 1
               /\ SubSeq(sub'[c].calls, 1, Len(sub[c].calls)) = sub[c].calls]_vars

\* C13: the steps of a submission run in the order validation, category
\* resolution, authorization, upload, record write; a failed step is the last
\* one of its submission; and the upload and the write of a caller who is not
\* admin store no object and change no row
C13_StepsInOrderAndAborted ==
  /\ StepsInOrder
  /\ [][\A c \in Clients :
          /\ (SubmitUpload(c) /\ NonAdmin(c)) => objects' = objects
          /\ (SubmitWrite(c) /\ NonAdmin(c)) => UNCHANGED store
          /\ ((SubmitAuthorize(c) \/ SubmitListBuckets(c) \/ SubmitCreateBucket(c)
                 \/ SubmitUpload(c)) /\ sub'[c].result = "error")
               => pc'[c].sub = "idle" /\ UNCHANGED store]_vars

C13_Witness ==
  \E c \in Clients :
    /\ sub[c].result = "error" /\ sub[c].pdfFile # NullFile
    /\ Len(sub[c].calls) > 0
    /\ StepOf(sub[c].calls[Len(sub[c].calls)]) = 2
    /\ pc[c].sub = "idle"

\* every request of client c has completed and none has failed
Settled(c) ==
  /\ pc[c].bg = "idle" /\ pc[c].sub = "idle"
  /\ count.events = 0
  /\ sub[c].result # "error"

\* C14: once all requests of a screen have completed, its lists of categories,
\* questions and notes hold exactly the rows the store returns to its user
C14_ListsEqualStoreWhenSettled ==
  \A c \in Clients :
    Settled(c) =>
      /\ Range(ui[c].categories) = Visible(practice_categories, session[c])
      /\ Range(ui[c].questions) = Visible(practice_questions, session[c])
      /\ Range(ui[c].notes) = Visible(practice_notes, session[c])

\* a step of handleSubmit after validation, up to the record write
SubmitStep(c) ==
  \/ SubmitCreateDefaults(c) \/ SubmitSelectCategory(c) \/ SubmitAuthorize(c)
  \/ SubmitListBuckets(c) \/ SubmitCreateBucket(c) \/ SubmitUpload(c) \/ SubmitWrite(c)

\* the remote call of the step failed; Tolerated: createDefaultCategories takes
\* the duplicate key answer for success
CallFailed(c, Tolerated) ==
  \/ count'.events # count.events
  \/ /\ SubmitCreateDefaults(c)
     /\ InsertCategoriesError(session[c]) \notin ({ErrNone} \cup Tolerated)
  \/ SubmitSelectCategory(c) /\ Visible(practice_categories, session[c]) = {}
  \/ SubmitAuthorize(c) /\ session[c] = NoUser
  \/ SubmitUpload(c) /\ objects' = objects
  \/ /\ SubmitWrite(c)
     /\ WriteError(sub[c].activeTab, session[c], sub[c].editingItem,
                   dataToSubmit(sub[c])) # ErrNone

\* the error is shown inline and as a notification, with one message
ShownInlineAndToast(c) ==
  /\ sub'[c].result = "error"
  /\ Len(ui'[c].formErrors) = 1 /\ ui'[c].formErrors[1] # <<>>
  /\ ui'[c].toast = ErrorToast(ui'[c].formErrors[1])

\* C15 as claimed: every error of a submission, a validation failure included,
\* is shown inline and as a notification, and no failed call is ignored
C15_EveryErrorInlineAndToast ==
  [][\A c \in Clients :
       /\ (handleSubmit(c) /\ sub'[c].result = "validation")
            => ui'[c].formErrors # <<>> /\ ui'[c].toast.title = "Error"
       /\ (SubmitStep(c) /\ (CallFailed(c, {}) \/ sub'[c].result = "error"))
            => ShownInlineAndToast(c)]_vars

\* C15 as amended: a validation failure is shown inline only, without a
\* notification; every error thrown after validation is shown inline and as a
\* notification; and every failed call is an error, except the duplicate key
\* answer to the bootstrap insert
C15_ErrorsAfterValidationInlineAndToast ==
  [][\A c \in Clients :
       /\ (handleSubmit(c) /\ sub'[c].result = "validation")
            => /\ ui'[c].formErrors = validateForm(sub'[c].formData, sub'[c].pdfFile)
               /\ ui'[c].formErrors # <<>>
               /\ ui'[c].toast = ui[c].toast
       /\ (SubmitStep(c) /\ (CallFailed(c, {ErrDuplicate}) \/ sub'[c].result = "error"))
            => ShownInlineAndToast(c)]_vars

C15_Witness ==
  \E c \in Clients :
    /\ sub[c].result = "error" /\ pc[c].sub = "idle"
    /\ Len(sub[c].calls) > 0
    /\ ui[c].formErrors = <<ui[c].toast.description>> /\ ui[c].toast.title = "Error"

\* a listing request of the admin screen that failed
ListingFailed(c, th) ==
  /\ FetchCategories(c, th) \/ FetchCategoriesAgain(c, th) \/ FetchQuestions(c, th)
       \/ FetchNotes(c, th)
  /\ count'.events # count.events

\* a listing request of the browse view that failed
BrowseListingFailed ==
  /\ BrowseFetchCategories \/ BrowseFetchQuestions \/ BrowseFetchNotes
  /\ count'.events # count.events

\* the list a pending listing request fills, and the lists fetched after it
ListsFrom(at) ==
  IF at \in {"f_cats", "f_cats2"} THEN {"categories", "questions", "notes"}
  ELSE IF at = "f_questions" THEN {"questions", "notes"}
  ELSE {"notes"}

\* C16 as claimed: after a failed listing the affected list and the lists
\* fetched after it are empty, a notification is raised and loading ends
C16_FailedListingEmptiesLists ==
  [][/\ \A c \in Clients : \A th \in Threads :
          ListingFailed(c, th)
            => /\ \A l \in ListsFrom(pc[c][th]) : ui'[c][l] = <<>>
               /\ ui'[c].toast.title = "Error" /\ ~ui'[c].loading
     /\ BrowseListingFailed
          => /\ \A l \in ListsFrom(bpc) : browse'[l] = <<>>
             /\ browse'.toast.title = "Error" /\ ~browse'.loading]_vars

\* C16 as amended: after a failed listing the three lists hold what they
\* held before the failed request, a notification is raised, loading ends and
\* the fetch makes no further request
C16_FailedListingKeepsLists ==
  [][/\ \A c \in Clients : \A th \in Threads :
          ListingFailed(c, th)
            => /\ \A l \in {"categories", "questions", "notes"} : ui'[c][l] = ui[c][l]
               /\ ui'[c].toast = ErrorToast(MsgLoadFailed) /\ ~ui'[c].loading
               /\ pc'[c][th] = "idle"
     /\ BrowseListingFailed
          => /\ \A l \in {"categories", "questions", "notes"} : browse'[l] = browse[l]
             /\ browse'.toast = ErrorToast(MsgBrowseLoadFailed) /\ ~browse'.loading
             /\ bpc' = "idle"]_vars

C16_Witness ==
  /\ count.events = 1
  /\ \/ \E c \in Clients :
          /\ ui[c].toast = ErrorToast(MsgLoadFailed) /\ ~ui[c].loading
          /\ ui[c].questions # <<>> /\ ui[c].categories # <<>>
     \/ /\ browse.toast = ErrorToast(MsgBrowseLoadFailed) /\ ~browse.loading
        /\ browse.categories # <<>>

\* C17: no edit changes the stored is_active of the edited record
C17_EditKeepsActiveFlag ==
  [][\A c \in Clients :
       (SubmitWrite(c) /\ sub[c].editingItem # NullItem)
         => /\ \A r \in practice_questions : \A r2 \in practice_questions' :
                 r2.id = r.id => r2.is_active = r.is_active
            /\ \A r \in practice_notes : \A r2 \in practice_notes' :
                 r2.id = r.id => r2.is_active = r.is_active]_vars

\* C18: the payload written to practice_notes has no difficulty field, and the
\* valid note submission of an admin succeeds and stores the note
C18_NoteWrittenWithoutDifficulty ==
  [][\A c \in Clients :
       (SubmitWrite(c) /\ sub[c].activeTab = "notes" /\ count' = count
          /\ has_role(session[c], "admin")
          /\ sub[c].categoryId \in Ids(practice_categories))
         => /\ "difficulty_level" \notin DOMAIN dataToSubmit(sub[c])
            /\ sub'[c].result = "success"
            /\ sub[c].editingItem = NullItem
                 => \E r \in practice_notes' : r.title = sub[c].formData.title]_vars

\* C19: a failed record write is shown by its error code: 23503 as the
\* invalid-category message, 42501 as the permission message, also when the
\* error carries a message text of its own
C19_WriteErrorMappedFromCode ==
  [][\A c \in Clients :
       (SubmitWrite(c) /\ count' = count)
         => LET error == WriteError(sub[c].activeTab, session[c], sub[c].editingItem,
                                    dataToSubmit(sub[c]))
            IN /\ error.code = "23503" => ui'[c].toast.description = MsgBadCategory
               /\ error.code = "42501"
                    => ui'[c].toast.description \in {MsgPermission, MsgDbPermission}]_vars

\* an insert failure whose message tells of a duplicate key or an existing row
DuplicateFailure(error) ==
  \/ Includes(error.message, <<"duplicate", "key">>)
  \/ Includes(error.message, <<"already", "exists">>)

\* the answer of the insert of the defaults in a step: the store's, or the
\* network failure when the step spends a fault
BootstrapAnswer(c) ==
  IF count' # count THEN ErrNetwork ELSE InsertCategoriesError(session[c])

\* C20: createDefaultCategories returns normally on a duplicate failure and the
\* caller continues; any other failure is thrown as the initialization error:
\* the submission writes no record, the list fetch raises a notification
C20_BootstrapFailureHandling ==
  [][\A c \in Clients :
       /\ SubmitCreateDefaults(c) =>
            IF BootstrapAnswer(c) = ErrNone \/ DuplicateFailure(BootstrapAnswer(c))
            THEN pc'[c].sub = "s_catsel" /\ ui'[c].toast = ui[c].toast
            ELSE /\ pc'[c].sub = "idle" /\ sub'[c].result = "error"
                 /\ ui'[c].toast = ErrorToast(MsgInitFailed)
                 /\ ui'[c].formErrors = <<MsgInitFailed>>
                 /\ UNCHANGED <<practice_questions, practice_notes>>
       /\ \A th \in Threads :
            FetchCreateDefaults(c, th) =>
              IF BootstrapAnswer(c) = ErrNone \/ DuplicateFailure(BootstrapAnswer(c))
              THEN pc'[c][th] = "f_cats2" /\ ui'[c].toast = ui[c].toast
              ELSE /\ pc'[c][th] = "idle"
                   /\ ui'[c].toast = ErrorToast(MsgLoadFailed)]_vars

\* a submission that needed the bootstrap ended in the initialization error
\* without a record write
C20_Witness ==
  \E c \in Clients :
    /\ sub[c].result = "error" /\ ui[c].toast = ErrorToast(MsgInitFailed)
    /\ "practice_categories.insert" \in Range(sub[c].calls)
    /\ Range(sub[c].calls) \cap {"record.insert", "record.update"} = {}

\* C21: the four default rows are inserted only into an empty table: a
\* bootstrap step that adds rows to practice_categories starts from zero rows
C21_DefaultsOnlyIntoEmptyTable ==
  [][\A c \in Clients :
       ((SubmitCreateDefaults(c) \/ \E th \in Threads : FetchCreateDefaults(c, th))
          /\ practice_categories' # practice_categories)
         => practice_categories = {}]_vars

\* the messages of the validation rules that a form and a file violate
RuleViolations(formData, pdfFile) ==
  (IF \A k \in 1..Len(formData.title) : formData.title[k].ch \in Whitespace
   THEN {MsgTitleRequired} ELSE {})
  \cup (IF Length(formData.title) > MaxTitleLen THEN {MsgTitleLong} ELSE {})
  \cup (IF Length(formData.description) > MaxDescLen THEN {MsgDescLong} ELSE {})
  \cup (IF pdfFile # NullFile /\ pdfFile.type # TypePdf THEN {MsgPdfOnly} ELSE {})
  \cup (IF pdfFile # NullFile /\ pdfFile.size > MaxFileSize THEN {MsgFileBig} ELSE {})

\* C22: validation reports one message for each violated rule and none for a
\* rule that holds, and the submission aborts exactly when a rule is violated
C22_AllViolationsReported ==
  [][\A c \in Clients :
       handleSubmit(c) =>
         LET rules == RuleViolations(sub'[c].formData, sub'[c].pdfFile)
         IN /\ Range(ui'[c].formErrors) = rules
            /\ Len(ui'[c].formErrors) = Cardinality(rules)
            /\ rules # {} <=> EndsInValidation(c)
            /\ rules = {} <=> (sub'[c].result = "running" /\ pc'[c].sub # "idle")]_vars

\* the steps that follow a passed authorization
AfterAuthorization == {"s_buckets", "s_write"}

\* C23: the authorization step needs an authenticated user; with the cached
\* isAdmin set it makes no role lookup and proceeds, whatever the stored role;
\* with the flag unset it looks the role up and proceeds only for an admin
C23_AuthorizationUsesCachedFlag ==
  [][\A c \in Clients :
       (SubmitAuthorize(c) /\ count' = count) =>
         IF session[c] = NoUser
         THEN pc'[c].sub = "idle" /\ ui'[c].toast = ErrorToast(MsgAuthRequired)
         ELSE IF sub[c].isAdmin
         THEN /\ "user_roles.select" \notin Range(sub'[c].calls)
              /\ pc'[c].sub \in AfterAuthorization
         ELSE /\ "user_roles.select" \in Range(sub'[c].calls)
              /\ pc'[c].sub \in AfterAuthorization <=> has_role(session[c], "admin")
              /\ pc'[c].sub \notin AfterAuthorization
                   => ui'[c].toast = ErrorToast(MsgAdminRequired)]_vars

\* the client-side check has passed for a user whose admin role was revoked
C23_Witness ==
  \E c \in Clients :
    /\ sub[c].isAdmin /\ ~has_role(session[c], "admin")
    /\ pc[c].sub \in AfterAuthorization
    /\ "auth.getUser" \in Range(sub[c].calls)
    /\ "user_roles.select" \notin Range(sub[c].calls)

\* the rows a successful write step of c has created, or the stored rows that
\* its update has matched, as they are after the step
RowsWritten(c) ==
  IF sub[c].editingItem = NullItem
  THEN (practice_questions' \ practice_questions) \cup (practice_notes' \ practice_notes)
  ELSE {r \in (IF sub[c].activeTab = "questions" THEN practice_questions'
               ELSE practice_notes') :
          \E m \in Matched(sub[c].activeTab, session[c], sub[c].editingItem.id) :
            r.id = m.id}

\* C24: with a file, the upload is complete before the record write is issued
\* and the written record carries the public URL of the uploaded object, on
\* create and on edit; a create without a file writes an empty pdf_url
C24_WrittenUrlIsUploadedObject ==
  /\ [][\A c \in Clients :
          (SubmitUpload(c) /\ pc'[c].sub = "s_write")
            => \E fileName \in objects' \ objects :
                 sub'[c].pdfUrl = getPublicUrl(fileName)]_vars
  /\ [][\A c \in Clients :
          (SubmitWrite(c) /\ sub'[c].result = "success") =>
            /\ sub[c].pdfFile # NullFile =>
                 /\ "storage.upload" \in Range(sub[c].calls)
                 /\ \E fileName \in objects : sub[c].pdfUrl = getPublicUrl(fileName)
                 /\ \A r \in RowsWritten(c) : r.pdf_url = sub[c].pdfUrl
            /\ (sub[c].pdfFile = NullFile /\ sub[c].editingItem = NullItem) =>
                 /\ "storage.upload" \notin Range(sub[c].calls)
                 /\ \A r \in RowsWritten(c) : r.pdf_url = <<>>]_vars

\* an edit with a replacement file has succeeded and the stored record carries
\* the URL of the uploaded object in place of the previous one
C24_Witness ==
  \E c \in Clients :
    /\ sub[c].result = "success" /\ sub[c].pdfFile # NullFile
    /\ sub[c].editingItem # NullItem
    /\ \E q \in practice_questions :
         /\ q.id = sub[c].editingItem.id
         /\ q.pdf_url = sub[c].pdfUrl /\ q.pdf_url # KeptUrl(sub[c].editingItem)
         /\ \E fileName \in objects : q.pdf_url = getPublicUrl(fileName)

\* the remote calls handleSubmit can issue; none of them deletes an object
SubmitCalls ==
  {"practice_categories.insert", "practice_categories.select", "auth.getUser",
   "user_roles.select", "storage.listBuckets", "storage.createBucket",
   "storage.upload", "record.insert", "record.update"}

AllTables == practice_questions \cup practice_notes

\* C25: no rollback and no retry: a record write that fails after the upload
\* leaves the uploaded object stored and unreferenced, a submission issues no
\* call twice and no delete of an object, and an upload stores a new name only
C25_NoRollbackNoRetry ==
  /\ [](\A c \in Clients :
          /\ Range(sub[c].calls) \subseteq SubmitCalls
          /\ \A i, j \in 1..Len(sub[c].calls) : i # j => sub[c].calls[i] # sub[c].calls[j]
          /\ sub[c].result = "error" => pc[c].sub = "idle")
  /\ [][\A c \in Clients :
          /\ (SubmitWrite(c) /\ sub'[c].result = "error" /\ sub[c].pdfUrl # <<>>) =>
               /\ objects' = objects
               /\ \E fileName \in objects' : getPublicUrl(fileName) = sub[c].pdfUrl
               /\ \A r \in AllTables' : r.pdf_url # sub[c].pdfUrl
          /\ SubmitUpload(c) =>
               /\ objects \subseteq objects'
               /\ pc'[c].sub = "s_write" <=> Cardinality(objects') = Cardinality(objects) + 1
               /\ pc'[c].sub # "s_write" => objects' = objects /\ sub'[c].result = "error"]_vars

\* the record write has failed after the upload: the object is stored, no
\* record carries its URL and nothing of the submission is pending
C25_Witness ==
  \E c \in Clients :
    /\ sub[c].result = "error" /\ pc[c].sub = "idle" /\ sub[c].pdfUrl # <<>>
    /\ sub[c].calls[Len(sub[c].calls)] \in {"record.insert", "record.update"}
    /\ \E fileName \in objects : getPublicUrl(fileName) = sub[c].pdfUrl
    /\ \A r \in AllTables : r.pdf_url # sub[c].pdfUrl

\* checkUserRole has returned in the mount of c
RoleResolved(c) == pc[c].bg \notin {"role_lookup", "role_insert"}

\* C26: for a user with a role row, repeated calls of checkUserRole insert
\* nothing, leave user_roles unchanged and yield the same role and isAdmin
C26_RepeatedCallsYieldSameRole ==
  /\ [][\A c \in Clients :
          (CheckUserRole(c) /\ RolesOf(c) # {})
            => user_roles' = user_roles /\ pc'[c].bg # "role_insert"]_vars
  /\ [](\A c, d \in Clients :
          (session[c] = session[d] /\ RoleResolved(c) /\ RoleResolved(d)
             /\ RolesOf(c) # {})
            => /\ ui[c].userRole = ui[d].userRole
               /\ ui[c].isAdmin = ui[d].isAdmin)

\* C26, restated: for a user with a role row, every call of checkUserRole
\* inserts nothing and leaves user_roles unchanged; a call whose lookup
\* succeeds yields the stored role, a call whose lookup fails yields student
C26_RepeatedCallsYieldStoredRole ==
  [][\A c \in Clients :
       (CheckUserRole(c) /\ RolesOf(c) # {})
         => /\ user_roles' = user_roles /\ pc'[c].bg # "role_insert"
            /\ IF count' = count
               THEN /\ [user_id |-> session[c], role |-> ui'[c].userRole] \in user_roles
                    /\ ui'[c].isAdmin = has_role(session[c], "admin")
               ELSE ui'[c].userRole = "student" /\ ~ui'[c].isAdmin]_vars

\* both mounts of an admin have resolved the role, one of them through a
\* failed lookup, and user_roles still holds the one admin row
C26_Witness ==
  /\ session["c1"] = session["c2"]
  /\ RoleResolved("c1") /\ RoleResolved("c2")
  /\ RolesOf("c1") = {[user_id |-> session["c1"], role |-> "admin"]}
  /\ ui["c1"].isAdmin /\ ~ui["c2"].isAdmin

Ascending(s) == \A i, j \in 1..Len(s) : i < j => s[i].order_index <= s[j].order_index

\* C27: the browse view shows the groups in ascending category order_index
\* and the items of a group in ascending item order_index; a displayed item is
\* in the group of its category_id and in no other, and every displayed
\* category and item was fetched with is_active = true
C27_GroupsAndItemsInOrder ==
  /\ Ascending(DisplayedGroups)
  /\ \A i \in 1..Len(DisplayedGroups) :
       LET items == GroupItems(DisplayedGroups[i])
       IN /\ DisplayedGroups[i].is_active
          /\ Ascending(items)
          /\ \A k \in 1..Len(items) :
               /\ items[k].is_active
               /\ items[k].category_id = DisplayedGroups[i].id
               /\ \A j \in 1..Len(DisplayedGroups) :
                    (j # i) => items[k] \notin Range(GroupItems(DisplayedGroups[j]))

\* two groups are displayed and one of them holds two items
C27_Witness ==
  /\ Len(DisplayedGroups) >= 2
  /\ \E i \in 1..Len(DisplayedGroups) : Len(GroupItems(DisplayedGroups[i])) >= 2
  /\ DisplayedGroups[1].order_index < DisplayedGroups[2].order_index

\* the screen whose steps SpecLive takes
Mounted == {"c1"}

\* a submission of c is in progress
InProgress(c) == pc[c].sub # "idle"

FetchStates == {"f_cats", "f_boot", "f_cats2", "f_questions", "f_questions_wait", "f_notes"}

\* C28: uploading is true exactly while a submission is in progress and false
\* when it has ended, on every path; every run of fetchPracticeData ends with
\* loading = false; every started submission eventually ends
C28_FlagsClearedAndSubmissionEnds ==
  /\ [](\A c \in Clients : ui[c].uploading <=> InProgress(c))
  /\ [][\A c \in Clients :
          /\ handleSubmitOf(c, Submissions) =>
               (InProgress(c)' <=> validateForm(sub'[c].formData, sub'[c].pdfFile) = <<>>)
          /\ \A th \in Threads :
               (pc[c][th] \in FetchStates /\ pc'[c][th] = "idle") => ~ui'[c].loading]_vars
  /\ \A c \in Mounted : InProgress(c) ~> ~InProgress(c)
  /\ \A c \in Mounted : ui[c].loading ~> ~ui[c].loading

\* a submission has ended after its record write and its refetch, and both
\* flags are down
C28_Witness ==
  \E c \in Clients :
    /\ sub[c].result = "success" /\ ~InProgress(c)
    /\ ~ui[c].uploading /\ ~ui[c].loading

\* C29: whenever the dialog is closed the editing target and the file are
\* cleared and no form error is left, so that a submission from the dialog
\* opened by the Add button inserts a record and updates none
C29_ClosedDialogIsClean ==
  /\ [](\A c \in Clients :
          ~ui[c].isDialogOpen =>
            /\ ui[c].editingItem = NullItem
            /\ ui[c].pdfFile = NullFile
            /\ ui[c].formErrors = <<>>)
  /\ [][\A c \in Clients :
          (OpenDialog(c) => ui'[c].editingItem = NullItem)
          /\ (handleSubmit(c) /\ ui[c].editingItem = NullItem
                => sub'[c].editingItem = NullItem)]_vars

\* the 'No ... Available' notice of the selected tab
NoticeShown == ~browse.loading /\ Len(BrowseList) = 0

\* C30: once loading has finished, the selected tab of the browse view shows
\* at least one category group or the notice that nothing is available
C30_GroupOrNoticeShown ==
  ~browse.loading => (Len(DisplayedGroups) > 0 \/ NoticeShown)

====
